---- MODULE Spec2Model ----
(***************************************************************************)
(* Model of MatrizBuscaminas (src/src/matriz_buscaminas.rs) driven by the  *)
(* pipeline of main (src/src/main.rs, lines 16-25):                        *)
(*     new -> popular_desde_bytes -> contar_bombas -> imprimir             *)
(* Bytes are integers 0..255; the vector valores is a sequence whose       *)
(* 0-based index i of the source is position i + 1 here.  Standard output  *)
(* of imprimir_como_buscaminas is the byte sequence salida.                *)
(***************************************************************************)
EXTENDS Integers, Sequences, FiniteSets, TLC

\* ---------------------------------------------------------------- bounds
\* Longest input handed to popular_desde_bytes.
MaxLen == 6

\* ------------------------------------------------------------- constants
ASTERISCO_BYTE == 42
INTERDOT_FIRST_BYTE == 194
INTERDOT_SECOND_BYTE == 183
DOT_BYTE == 46
\* b'\n' and b'\r' as written in the source
NEWLINE_BYTE == 10
CR_BYTE == 13

\* The input alphabet: every byte the code distinguishes, plus b'x' (120)
\* standing for the bytes that fall in the final else of validar_mapa.
Bytes ==
  {ASTERISCO_BYTE, INTERDOT_FIRST_BYTE, INTERDOT_SECOND_BYTE, DOT_BYTE,
   NEWLINE_BYTE, CR_BYTE, 120}

\* All inputs (&[u8]) of length at most MaxLen.
Entradas == UNION {[1..n -> Bytes] : n \in 0..MaxLen}

VARIABLES
  valores,      \* self.valores : Vec<i32>
  columnas,     \* self.columnas : i32
  filas,        \* self.filas : i32
  bytes,        \* the argument given to popular_desde_bytes
  resultado,    \* "None" before the call, then "Ok" or "Err"
  salida,       \* bytes printed by imprimir_como_buscaminas
  diagnostico,  \* message printed by main's error arm
  pc,           \* position in main
  pendientes    \* mines not yet processed (any-order counting only)

vars ==
  <<valores, columnas, filas, bytes, resultado, salida, diagnostico, pc,
    pendientes>>

\* ------------------------------------------------------- contar_columnas
\* One iteration of the loop of contar_columnas (the break is the caller's).
contar_columnas_paso(byte, cols) ==
  IF byte = INTERDOT_FIRST_BYTE \/ byte = ASTERISCO_BYTE \/ byte = DOT_BYTE
  THEN cols + 1
  ELSE cols

RECURSIVE contar_columnas_bucle(_, _, _)
contar_columnas_bucle(bs, k, cols) ==
  IF k > Len(bs) THEN cols
  ELSE IF bs[k] = NEWLINE_BYTE THEN cols
  ELSE contar_columnas_bucle(bs, k + 1, contar_columnas_paso(bs[k], cols))

contar_columnas(bs) == contar_columnas_bucle(bs, 1, 0)

\* ---------------------------------------------------------- validar_mapa
\* One iteration of the loop of validar_mapa: ok = FALSE is `return false`.
\* Variant: a byte outside the recognised set is skipped instead of rejected.
validar_mapa_paso_tolerante(byte, contador, cols) ==
  IF byte = NEWLINE_BYTE
  THEN IF contador # cols
       THEN [ok |-> FALSE, contador |-> contador]
       ELSE [ok |-> TRUE, contador |-> 0]
  ELSE IF byte = INTERDOT_FIRST_BYTE \/ byte = ASTERISCO_BYTE
          \/ byte = DOT_BYTE
  THEN [ok |-> TRUE, contador |-> contador + 1]
  ELSE [ok |-> TRUE, contador |-> contador]

validar_mapa_paso(byte, contador, cols) ==
  IF byte = NEWLINE_BYTE
  THEN IF contador # cols
       THEN [ok |-> FALSE, contador |-> contador]
       ELSE [ok |-> TRUE, contador |-> 0]
  ELSE IF byte = INTERDOT_FIRST_BYTE \/ byte = ASTERISCO_BYTE
          \/ byte = DOT_BYTE
  THEN [ok |-> TRUE, contador |-> contador + 1]
  ELSE IF byte = INTERDOT_SECOND_BYTE \/ byte = CR_BYTE
  THEN [ok |-> TRUE, contador |-> contador]
  ELSE [ok |-> FALSE, contador |-> contador]

RECURSIVE validar_mapa_bucle(_, _, _, _)
validar_mapa_bucle(bs, k, contador, cols) ==
  IF k > Len(bs) THEN [ok |-> TRUE, contador |-> contador]
  ELSE LET r == validar_mapa_paso(bs[k], contador, cols)
       IN IF r.ok THEN validar_mapa_bucle(bs, k + 1, r.contador, cols)
          ELSE r

\* Variant: the check of the last line (lines 142-144) is missing.
validar_mapa_sin_final(bs, cols) ==
  LET r == validar_mapa_bucle(bs, 1, 0, cols)
  IN r.ok

validar_mapa(bs, cols) ==
  LET r == validar_mapa_bucle(bs, 1, 0, cols)
  IN IF ~r.ok THEN FALSE
     ELSE IF r.contador # cols THEN FALSE
     ELSE TRUE

\* ---------------------------------------------------------- contar_filas
\* One iteration of the loop of contar_filas; contador is the 1-based
\* position of byte.  The concat of line 160 builds a value that is dropped.
\* Variant: an unterminated last line is not counted.
contar_filas_paso_sin_final(bs, contador, f) ==
  IF bs[contador] = NEWLINE_BYTE THEN f + 1 ELSE f

\* Variant: an unterminated last line is counted only when its last byte is
\* a mine or empty symbol.
contar_filas_paso_solo_simbolo(bs, contador, f) ==
  LET f1 == IF bs[contador] = NEWLINE_BYTE THEN f + 1 ELSE f
  IN IF contador = Len(bs)
        /\ bs[contador] \in {ASTERISCO_BYTE, INTERDOT_FIRST_BYTE, DOT_BYTE}
     THEN f1 + 1
     ELSE f1

contar_filas_paso(bs, contador, f) ==
  LET f1 == IF bs[contador] = NEWLINE_BYTE THEN f + 1 ELSE f
  IN IF contador = Len(bs) /\ bs[contador] # NEWLINE_BYTE
     THEN f1 + 1
     ELSE f1

RECURSIVE contar_filas_bucle(_, _, _)
contar_filas_bucle(bs, contador, f) ==
  IF contador > Len(bs) THEN f
  ELSE contar_filas_bucle(bs, contador + 1, contar_filas_paso(bs, contador, f))

contar_filas(bs) == contar_filas_bucle(bs, 1, 0)

\* ------------------------------------------- popular_desde_bytes, 51-57
\* One iteration of the push loop.
\* Variant: the second byte of the interpunct pushes a cell of its own.
poblar_paso_segundo_byte(vals, byte) ==
  IF byte = ASTERISCO_BYTE THEN Append(vals, -1)
  ELSE IF byte = INTERDOT_FIRST_BYTE \/ byte = DOT_BYTE
          \/ byte = INTERDOT_SECOND_BYTE
  THEN Append(vals, 0)
  ELSE vals

poblar_paso(vals, byte) ==
  IF byte = ASTERISCO_BYTE THEN Append(vals, -1)
  ELSE IF byte = INTERDOT_FIRST_BYTE \/ byte = DOT_BYTE THEN Append(vals, 0)
  ELSE vals

RECURSIVE poblar_bucle(_, _, _)
poblar_bucle(vals, bs, k) ==
  IF k > Len(bs) THEN vals
  ELSE poblar_bucle(poblar_paso(vals, bs[k]), bs, k + 1)

\* --------------------------------------------------------- contar_bombas
obtener_coordenadas(i, col) == <<i \div col, i % col>>

\* Variant: a mine is incremented like any other cell.
aumentar_celda_sin_mina(vals, celda, f, cols) ==
  IF celda[1] < 0 \/ celda[1] >= f \/ celda[2] < 0 \/ celda[2] >= cols
  THEN vals
  ELSE LET posicion == celda[1] * cols + celda[2]
       IN [vals EXCEPT ![posicion + 1] = @ + 1]

aumentar_celda(vals, celda, f, cols) ==
  IF celda[1] < 0 \/ celda[1] >= f \/ celda[2] < 0 \/ celda[2] >= cols
  THEN vals
  ELSE LET posicion == celda[1] * cols + celda[2]
       IN IF vals[posicion + 1] # -1
          THEN [vals EXCEPT ![posicion + 1] = @ + 1]
          ELSE vals

\* Variant: the lower-right neighbour is missing from the list.
celdas_a_aumentar_sin_diagonal(coord) ==
  << <<coord[1] - 1, coord[2] - 1>>,
     <<coord[1] - 1, coord[2]>>,
     <<coord[1] - 1, coord[2] + 1>>,
     <<coord[1], coord[2] - 1>>,
     <<coord[1], coord[2] + 1>>,
     <<coord[1] + 1, coord[2] - 1>>,
     <<coord[1] + 1, coord[2]>> >>

celdas_a_aumentar(coord) ==
  << <<coord[1] - 1, coord[2] - 1>>,
     <<coord[1] - 1, coord[2]>>,
     <<coord[1] - 1, coord[2] + 1>>,
     <<coord[1], coord[2] - 1>>,
     <<coord[1], coord[2] + 1>>,
     <<coord[1] + 1, coord[2] - 1>>,
     <<coord[1] + 1, coord[2]>>,
     <<coord[1] + 1, coord[2] + 1>> >>

RECURSIVE aumentar_lista(_, _, _, _, _)
aumentar_lista(vals, celdas, k, f, cols) ==
  IF k > Len(celdas) THEN vals
  ELSE aumentar_lista(aumentar_celda(vals, celdas[k], f, cols),
                      celdas, k + 1, f, cols)

aumentar_adyacentes(vals, i, f, cols) ==
  LET coord == obtener_coordenadas(i, cols)
  IN aumentar_lista(vals, celdas_a_aumentar(coord), 1, f, cols)

\* for i in 0..self.valores.len()
RECURSIVE contar_bombas_bucle(_, _, _, _)
contar_bombas_bucle(vals, i, f, cols) ==
  IF i >= Len(vals) THEN vals
  ELSE IF vals[i + 1] = -1
  THEN contar_bombas_bucle(aumentar_adyacentes(vals, i, f, cols),
                           i + 1, f, cols)
  ELSE contar_bombas_bucle(vals, i + 1, f, cols)

\* ---------------------------------------------- imprimir_como_buscaminas
\* print!("{}", n) for an i32: the decimal digits, '-' first when negative.
RECURSIVE decimal(_)
decimal(n) ==
  IF n < 0 THEN <<45>> \o decimal(-n)
  ELSE IF n < 10 THEN <<48 + n>>
  ELSE decimal(n \div 10) \o <<48 + (n % 10)>>

imprimir_valor(valor) ==
  IF valor = -1 THEN <<ASTERISCO_BYTE>>
  ELSE IF valor = 0 THEN <<INTERDOT_FIRST_BYTE, INTERDOT_SECOND_BYTE>>
  ELSE decimal(valor)

RECURSIVE imprimir_bucle(_, _, _, _, _)
imprimir_bucle(out, vals, k, contador_columnas, cols) ==
  IF k > Len(vals) THEN out \o <<NEWLINE_BYTE>>
  ELSE LET salto == (contador_columnas = cols)
           out1 == IF salto THEN out \o <<NEWLINE_BYTE>> ELSE out
           c1 == IF salto THEN 0 ELSE contador_columnas
       IN imprimir_bucle(out1 \o imprimir_valor(vals[k]), vals, k + 1,
                         c1 + 1, cols)

\* --------------------------------------------------------------- actions
\* MatrizBuscaminas::new(), main line 16.
Init ==
  /\ valores = <<>>
  /\ columnas = 0
  /\ filas = 0
  /\ bytes = <<>>
  /\ resultado = "None"
  /\ salida = <<>>
  /\ diagnostico = ""
  /\ pc = "new"
  /\ pendientes = {}

\* The body of popular_desde_bytes, without the frame of the other variables.
popular(b) ==
  /\ bytes' = b
  /\ filas' = contar_filas(b)
  /\ columnas' = contar_columnas(b)
  /\ IF ~validar_mapa(b, contar_columnas(b))
     THEN /\ resultado' = "Err"
          /\ valores' = valores
          /\ pc' = "error"
     ELSE /\ resultado' = "Ok"
          /\ valores' = poblar_bucle(valores, b, 1)
          /\ pc' = "populado"
  /\ UNCHANGED <<salida, diagnostico>>

popular_desde_bytes ==
  /\ pc = "new"
  /\ \E b \in Entradas : popular(b)
  /\ UNCHANGED pendientes

\* main lines 19-22: the Err arm prints the message and returns.
main_error ==
  /\ pc = "error"
  /\ diagnostico' = "Error al parsear archivo a tablero: Mapa invalido"
  /\ pc' = "fin"
  /\ UNCHANGED <<valores, columnas, filas, bytes, resultado, salida,
                 pendientes>>

contar_bombas ==
  /\ pc = "populado"
  /\ valores' = contar_bombas_bucle(valores, 0, filas, columnas)
  /\ pc' = "contado"
  /\ UNCHANGED <<columnas, filas, bytes, resultado, salida, diagnostico,
                 pendientes>>

imprimir_como_buscaminas ==
  /\ pc = "contado"
  /\ salida' = imprimir_bucle(salida, valores, 1, 0, columnas)
  /\ pc' = "fin"
  /\ UNCHANGED <<valores, columnas, filas, bytes, resultado, diagnostico,
                 pendientes>>

Next ==
  \/ popular_desde_bytes
  \/ main_error
  \/ contar_bombas
  \/ imprimir_como_buscaminas

Spec == Init /\ [][Next]_vars

\* ------------------------------------------- counting in arbitrary order
\* popular_desde_bytes, remembering which cells hold a mine.
popular_orden ==
  /\ pc = "new"
  /\ \E b \in Entradas : popular(b)
  /\ pendientes' = {i \in 0..(Len(valores') - 1) : valores'[i + 1] = -1}

\* The body of the loop of contar_bombas for one mine i, taken in any order.
procesar_mina(i) ==
  /\ pc = "populado"
  /\ i \in pendientes
  /\ valores' = aumentar_adyacentes(valores, i, filas, columnas)
  /\ pendientes' = pendientes \ {i}
  /\ UNCHANGED <<columnas, filas, bytes, resultado, salida, diagnostico, pc>>

NextOrden ==
  \/ popular_orden
  \/ \E i \in pendientes : procesar_mina(i)

SpecOrden == Init /\ [][NextOrden]_vars

\* ============================================================ properties
\* Vocabulary of the statements below, defined on the raw input and
\* independently of the operators that model the code.
Simbolos == {ASTERISCO_BYTE, INTERDOT_FIRST_BYTE, DOT_BYTE}

Saltos(b) == {i \in DOMAIN b : b[i] = NEWLINE_BYTE}

NumSaltos(b) == Cardinality(Saltos(b))

NumSimbolos(b, lo, hi) == Cardinality({i \in lo..hi : b[i] \in Simbolos})

Maximo(S) == CHOOSE m \in S : \A x \in S : x <= m

Minimo(S) == CHOOSE m \in S : \A x \in S : m <= x

\* First position of the line that contains (or ends at) position j.
InicioLinea(b, j) == 1 + Maximo({0} \cup {i \in Saltos(b) : i < j})

InicioFinal(b) == InicioLinea(b, Len(b) + 1)

\* The input has bytes after its last line break.
HayFilaFinal(b) == InicioFinal(b) <= Len(b)

\* Symbol counts of the rows: each terminated line and the unterminated one.
Conteos(b) ==
  {NumSimbolos(b, InicioLinea(b, j), j - 1) : j \in Saltos(b)}
  \cup (IF HayFilaFinal(b)
        THEN {NumSimbolos(b, InicioFinal(b), Len(b))}
        ELSE {})

\* Symbols before the first line break, or in the whole input without one.
PrimerConteo(b) ==
  NumSimbolos(b, 1, Minimo(Saltos(b) \cup {Len(b) + 1}) - 1)

FilaDesigual(b) == \E n \in Conteos(b) : n # PrimerConteo(b)

TerminaSinSalto(b) == Len(b) > 0 /\ b[Len(b)] # NEWLINE_BYTE

\* The cells the input denotes, in row-major order.
CeldaDe(byte) == IF byte = ASTERISCO_BYTE THEN -1 ELSE 0

CeldasDe(b) ==
  LET sym == SelectSeq(b, LAMBDA x : x \in Simbolos)
  IN [k \in 1..Len(sym) |-> CeldaDe(sym[k])]

Populado == pc # "new"

\* C1: whenever popular_desde_bytes returned Ok on a fresh board,
\* valores.len() == filas * columnas.
C1_LongitudFilasPorColumnas ==
  resultado = "Ok" => Len(valores) = filas * columnas

\* Ok on an input with a carriage return and an unterminated last line.
C1_Witness ==
  /\ pc = "populado"
  /\ resultado = "Ok"
  /\ filas = 2
  /\ columnas >= 1
  /\ TerminaSinSalto(bytes)
  /\ \E i \in DOMAIN bytes : bytes[i] = CR_BYTE

\* Ok on an input with zero columns and several rows.
C1_WitnessCeroColumnas ==
  resultado = "Ok" /\ columnas = 0 /\ filas = 3

\* A grid of R >= 1 rows of C >= 1 symbols '*' or '.', each row followed by
\* a line break.
GrillaTerminada(b) ==
  /\ Len(b) > 0
  /\ b[Len(b)] = NEWLINE_BYTE
  /\ \A i \in DOMAIN b : b[i] \in {ASTERISCO_BYTE, DOT_BYTE, NEWLINE_BYTE}
  /\ PrimerConteo(b) >= 1
  /\ Conteos(b) = {PrimerConteo(b)}

\* C2: a rectangular grid whose every row ends with a line break is accepted
\* with filas = R, columnas = C and the row-major cells; "*.*\n" is counted to
\* [-1, 2, -1] and printed as "*2*\n".
C2_GrillaTerminadaAceptada ==
  (Populado /\ GrillaTerminada(bytes)) =>
    /\ resultado = "Ok"
    /\ filas = NumSaltos(bytes)
    /\ columnas = PrimerConteo(bytes)
    /\ pc = "populado" => valores = CeldasDe(bytes)
    /\ (bytes = <<42, 46, 42, 10>> /\ pc \in {"contado", "fin"})
         => valores = <<-1, 2, -1>>
    /\ (bytes = <<42, 46, 42, 10>> /\ pc = "fin")
         => salida = <<42, 50, 42, 10>>

\* Cell k (0-based) of the populated board was a mine.
EsMina(k) == CeldasDe(bytes)[k + 1] = -1

Desplazamientos == ({-1, 0, 1} \X {-1, 0, 1}) \ {<<0, 0>>}

\* Mines among the neighbours of (r, c) that lie inside the board.
MinasVecinas(r, c) ==
  Cardinality({d \in Desplazamientos :
                 /\ r + d[1] >= 0
                 /\ r + d[1] < filas
                 /\ c + d[2] >= 0
                 /\ c + d[2] < columnas
                 /\ EsMina((r + d[1]) * columnas + c + d[2])})

\* C3: after contar_bombas every mine is still -1 and every other cell holds
\* the number of mines among its in-bounds neighbours; all values in -1..8.
C3_ConteoDeVecinas ==
  (resultado = "Ok" /\ pc \in {"contado", "fin"}) =>
    \A k \in 0..(Len(valores) - 1) :
      /\ valores[k + 1] \in -1..8
      /\ IF EsMina(k)
         THEN valores[k + 1] = -1
         ELSE valores[k + 1] = MinasVecinas(k \div columnas, k % columnas)

\* A counted board of two rows where a cell is shared by two mines, one of
\* them diagonally below to the right of an empty cell.
C3_Witness ==
  /\ pc = "contado"
  /\ filas = 2
  /\ columnas = 2
  /\ valores = <<-1, 2, 2, -1>>

\* A counted board without mines.
C3_WitnessSinMinas ==
  pc = "contado" /\ Len(valores) >= 4 /\ \A k \in DOMAIN valores : valores[k] = 0

Reconocidos ==
  {ASTERISCO_BYTE, DOT_BYTE, INTERDOT_FIRST_BYTE, INTERDOT_SECOND_BYTE,
   NEWLINE_BYTE, CR_BYTE}

\* Position i of b holds a byte that the recognised symbols do not explain.
FueraDeLugar(b, i) ==
  \/ b[i] \notin Reconocidos
  \/ b[i] = INTERDOT_SECOND_BYTE
       /\ (i = 1 \/ b[i - 1] # INTERDOT_FIRST_BYTE)
  \/ b[i] = INTERDOT_FIRST_BYTE
       /\ (i = Len(b) \/ b[i + 1] # INTERDOT_SECOND_BYTE)
  \/ b[i] = CR_BYTE
       /\ (i = Len(b) \/ b[i + 1] # NEWLINE_BYTE)

\* C4 as stated: an input with any byte outside the recognised set, a stray
\* half of the interpunct, or a carriage return not before a line break, is
\* rejected.
C4_Original ==
  (Populado /\ \E i \in DOMAIN bytes : FueraDeLugar(bytes, i))
    => resultado = "Err"

\* C4 amended: an input with a byte outside
\* {'*', '.', 0xC2, 0xB7, '\n', '\r'} is rejected.
C4_ByteNoReconocidoRechazado ==
  (Populado /\ \E i \in DOMAIN bytes : bytes[i] \notin Reconocidos)
    => resultado = "Err"

\* A rejected input whose rows all have the same length, so that only the
\* unrecognised byte explains the rejection.
C4_Witness ==
  /\ resultado = "Err"
  /\ \E i \in DOMAIN bytes : bytes[i] \notin Reconocidos
  /\ ~FilaDesigual(bytes)
  /\ PrimerConteo(bytes) >= 1
  /\ TerminaSinSalto(bytes)

\* C5: an input with a row whose symbol count differs from the first row's is
\* rejected, valores stays empty, filas and columnas keep the computed values
\* and main stops without counting or printing a board.
C5_FilaDesigualRechazada ==
  (Populado /\ FilaDesigual(bytes)) =>
    /\ resultado = "Err"
    /\ valores = <<>>
    /\ filas = NumSaltos(bytes) + (IF TerminaSinSalto(bytes) THEN 1 ELSE 0)
    /\ columnas = PrimerConteo(bytes)
    /\ pc \in {"error", "fin"}
    /\ salida = <<>>

\* main has returned after a ragged input made only of recognised symbols.
C5_Witness ==
  /\ pc = "fin"
  /\ diagnostico # ""
  /\ FilaDesigual(bytes)
  /\ TerminaSinSalto(bytes)
  /\ \A i \in DOMAIN bytes :
       bytes[i] \in {ASTERISCO_BYTE, DOT_BYTE, NEWLINE_BYTE}
  /\ filas >= 2
  /\ columnas >= 1

\* What one cell prints as.
Glifo(v) ==
  IF v = -1 THEN <<ASTERISCO_BYTE>>
  ELSE IF v = 0 THEN <<INTERDOT_FIRST_BYTE, INTERDOT_SECOND_BYTE>>
  ELSE <<48 + v>>

RECURSIVE LineaEsperada(_, _, _)
LineaEsperada(vals, r, c) ==
  IF c >= columnas THEN <<NEWLINE_BYTE>>
  ELSE Glifo(vals[r * columnas + c + 1]) \o LineaEsperada(vals, r, c + 1)

RECURSIVE SalidaEsperada(_, _)
SalidaEsperada(vals, r) ==
  IF r >= filas THEN <<>>
  ELSE LineaEsperada(vals, r, 0) \o SalidaEsperada(vals, r + 1)

\* C6: the output is exactly filas lines, each of columnas cell characters
\* followed by a line break, for every filas >= 0 and columnas >= 0.
C6_SalidaFilasLineas ==
  (pc = "fin" /\ resultado = "Ok") =>
    /\ salida = SalidaEsperada(valores, 0)
    /\ NumSaltos(salida) = filas

\* C7: printing the empty board (0 rows, 0 columns, no cells) prints nothing.
C7_TableroVacioSinSalida ==
  (pc = "fin" /\ resultado = "Ok" /\ filas = 0 /\ columnas = 0
     /\ valores = <<>>)
    => salida = <<>>

\* C8 as stated: after popular_desde_bytes, Ok or Err, the board is empty or
\* valores.len() == filas * columnas.
C8_Original ==
  Populado =>
    \/ filas = 0 /\ columnas = 0 /\ valores = <<>>
    \/ Len(valores) = filas * columnas

\* C8 amended: after Ok the board is fully valid (valores.len() == filas *
\* columnas and every row of the input has columnas symbols, which are the
\* cells); after Err valores is empty whatever filas and columnas are.
C8_ValidoTrasOk ==
  Populado =>
    /\ resultado = "Ok" =>
         /\ Len(valores) = filas * columnas
         /\ \A n \in Conteos(bytes) : n = columnas
         /\ pc = "populado" => valores = CeldasDe(bytes)
    /\ resultado = "Err" => valores = <<>>

\* An accepted board of two rows, one of them written with the interpunct.
C8_Witness ==
  /\ pc = "populado"
  /\ resultado = "Ok"
  /\ filas = 2
  /\ columnas = 1
  /\ \E i \in DOMAIN bytes : bytes[i] = INTERDOT_SECOND_BYTE

\* A rejected input that leaves non-zero dimensions and no cells.
C8_WitnessErr ==
  resultado = "Err" /\ filas > 0 /\ columnas > 0 /\ valores = <<>>

\* C9: processing the mines in any order ends in the cells that the scan of
\* contar_bombas produces.
C9_OrdenIndiferente ==
  (pc = "populado" /\ pendientes = {}) =>
    valores = contar_bombas_bucle(poblar_bucle(<<>>, bytes, 1), 0,
                                  filas, columnas)

\* All mines processed, at least two of them, with a cell they share.
C9_Witness ==
  /\ pc = "populado"
  /\ pendientes = {}
  /\ Cardinality({k \in DOMAIN valores : valores[k] = -1}) >= 2
  /\ \E k \in DOMAIN valores : valores[k] = 2

\* C10 as stated: filas is the number of line breaks, plus one iff the input
\* does not end with a line break and has a symbol after its last line break.
C10_Original ==
  Populado =>
    filas = NumSaltos(bytes)
            + (IF /\ TerminaSinSalto(bytes)
                  /\ NumSimbolos(bytes, InicioFinal(bytes), Len(bytes)) >= 1
               THEN 1 ELSE 0)

\* C10 amended: filas is the number of line breaks, plus one iff the input is
\* not empty and its last byte is not a line break.
C10_FilasPorSaltos ==
  Populado =>
    filas = NumSaltos(bytes) + (IF TerminaSinSalto(bytes) THEN 1 ELSE 0)

\* The input ends with a carriage return after its last line break and the
\* bytes after that line break are counted as a row.
C10_Witness ==
  /\ Populado
  /\ NumSaltos(bytes) >= 1
  /\ bytes[Len(bytes)] = CR_BYTE
  /\ bytes[Len(bytes) - 1] = NEWLINE_BYTE
  /\ filas = NumSaltos(bytes) + 1

====
